---- MODULE Spec2Model ----
(***************************************************************************)
(* A model of the BabyBertSRL pipeline's control logic:                    *)
(*   - add_srl_tags.py      : the batching / line-making / file-writing    *)
(*                            script (SpecTags)                            *)
(*   - eval.py              : evaluate_model_on_pp (SpecPP) and            *)
(*                            evaluate_model_on_f1 (SpecF1)                *)
(*   - model_lm.py          : LMBert.decode (SpecDecode) and               *)
(*                            LMBert.train_on_batch (SpecTrain)            *)
(* Each program has its own variables, its own Init and its own Next; a    *)
(* specification of one program keeps the variables of the others idle.    *)
(***************************************************************************)
EXTENDS Integers, Sequences, FiniteSets, TLC

VARIABLES
    \* ---- add_srl_tags.py ----
    utterances,     \* the loaded utterances, each already a list of segments
    predictor,      \* the pretrained SRL model: instance -> predicted tags
    it,             \* the generator `it`: number of instances consumed so far
    batch,          \* the batch being filled
    outer_loop,
    res,            \* predictions returned by forward_on_instances
    d,              \* position of the `for d in res` loop (1-based, next one)
    num_no_verb,
    lines,
    file,           \* tokens written to the srl file so far
    w,              \* position of the `for line in lines` write loop
    pc,             \* control point of the script
    batches,        \* history: every batch handed to forward_on_instances
    processed,      \* history: every prediction the line loop has handled
    \* ---- eval.py : evaluate_model_on_pp ----
    pp_batches,     \* what instances_generator yields, with the model's loss on each
    pp_step,        \* position of the `for step, batch` loop (1-based, next one)
    pp_sum,
    num_steps,
    pp_result,      \* the returned value, pp_sum / num_steps, as a fraction
    pp_pc,
    model_training, \* the model's train/eval mode flag
    model_calls,    \* history: the steps at which the model was invoked
    \* ---- eval.py : evaluate_model_on_f1 ----
    f1_batches,     \* what instances_generator yields
    f1_step,
    f1_pc,
    output_dict,    \* the forward pass's output for the current batch
    batch_bio_predicted_tags,
    span_metric,    \* the scorer: the updates it has accumulated
    metric_dict,
    f1_result,
    f1_events,      \* history: forward / decode / update / get_metric calls
    \* ---- model_lm.py : LMBert.decode ----
    dec_output_dict,    \* the argument: class_probabilities, mask, wordpiece_offsets
    wordpiece_lm_tags,  \* output_dict['wordpiece_lm_tags']
    lm_tags,            \* output_dict['lm_tags']
    dec_pc,
    \* ---- model_lm.py : LMBert.train_on_batch ----
    train_batch,    \* what the forward pass and the regularizer yield on the batch
    train_loss,     \* `loss`
    train_output,   \* `output_dict`, the forward pass's output
    grads,          \* state of the parameters' gradients
    num_updates,    \* number of optimizer steps applied to the parameters
    train_calls,    \* history: the steps of the current call, in order
    train_result,
    calls_done,     \* number of train_on_batch calls that returned
    train_pc

tagVars == <<utterances, predictor, it, batch, outer_loop, res, d, num_no_verb,
             lines, file, w, pc, batches, processed>>

ppVars == <<pp_batches, pp_step, pp_sum, num_steps, pp_result, pp_pc,
            model_training, model_calls>>

f1Vars == <<f1_batches, f1_step, f1_pc, output_dict, batch_bio_predicted_tags,
            span_metric, metric_dict, f1_result, f1_events>>

decVars == <<dec_output_dict, wordpiece_lm_tags, lm_tags, dec_pc>>

trainVars == <<train_batch, train_loss, train_output, grads, num_updates,
               train_calls, train_result, calls_done, train_pc>>

vars == <<tagVars, ppVars, f1Vars, decVars, trainVars>>

notTags == <<ppVars, f1Vars, decVars, trainVars>>
notPP == <<tagVars, f1Vars, decVars, trainVars>>
notF1 == <<tagVars, ppVars, decVars, trainVars>>
notDecode == <<tagVars, ppVars, f1Vars, trainVars>>
notTrain == <<tagVars, ppVars, f1Vars, decVars>>

\* ------------------------------------------------------------------------
\* Bounds
\* ------------------------------------------------------------------------
\* BATCH_SIZE is 128 in add_srl_tags.py:16; the model runs the same loop
\* with a small batch size so that several full batches and a partial or
\* empty last batch all occur.
BATCH_SIZE == 2
MaxUtterances == 2
\* params.batch_size, a run-time parameter of the evaluation functions
params_batch_size == 2
\* the most batches the batcher yields in one evaluation
MaxBatches == 3
\* number of word-piece positions of the padded tensors handed to decode
MaxSeqLen == 2
\* number of train_on_batch calls in one run
MaxTrainCalls == 2

INTERACTIVE == FALSE

\* ------------------------------------------------------------------------
\* add_srl_tags.py : data
\* ------------------------------------------------------------------------
Tok(word, pos) == [w |-> word, pos |-> pos]

\* Segments as the segmentation model returns them, POS-tagged by spacy.
SegNoVerb   == <<Tok("hi", "INTJ")>>
SegOneVerb  == <<Tok("you", "PRON"), Tok("eat", "VERB")>>
SegTwoVerbs == <<Tok("go", "VERB"), Tok("and", "CCONJ"), Tok("play", "VERB")>>

\* An utterance, after segmentation.segment: a list of segments.
UtterancePool == { <<SegNoVerb>>, <<SegOneVerb>>, <<SegOneVerb, SegTwoVerbs>> }

Tags == {"B-V", "O"}

SeqsUpTo(S, n) == UNION { [1..k -> S] : k \in 0..n }

WordsOf(seg) == [i \in 1..Len(seg) |-> seg[i].w]

\* gen_instances_from_segment: one instance per VERB token, in token order.
RECURSIVE InstancesFrom(_, _)
InstancesFrom(seg, i) ==
    IF i > Len(seg) THEN <<>>
    ELSE (IF seg[i].pos = "VERB"
          THEN << [words |-> WordsOf(seg),
                   verb_labels |-> [j \in 1..Len(seg) |-> IF j = i THEN 1 ELSE 0]] >>
          ELSE <<>>)
         \o InstancesFrom(seg, i + 1)

gen_instances_from_segment(seg) == InstancesFrom(seg, 1)

RECURSIVE InstancesOfSegments(_)
InstancesOfSegments(segments) ==
    IF segments = <<>> THEN <<>>
    ELSE gen_instances_from_segment(Head(segments))
         \o InstancesOfSegments(Tail(segments))

\* gen_instances: everything the generator will yield, in order.
RECURSIVE gen_instances(_)
gen_instances(us) ==
    IF us = <<>> THEN <<>>
    ELSE InstancesOfSegments(Head(us)) \o gen_instances(Tail(us))

InstanceKinds ==
    UNION { { InstancesOfSegments(u)[k] : k \in 1..Len(InstancesOfSegments(u)) }
            : u \in UtterancePool }

\* The predictors the model considers: any tagging of the right length.
Predictors ==
    { f \in [InstanceKinds -> SeqsUpTo(Tags, 3)] :
        \A k \in InstanceKinds : Len(f[k]) = Len(k.words) }

\* ------------------------------------------------------------------------
\* add_srl_tags.py : helpers of the main loop
\* ------------------------------------------------------------------------
BatchNotFullOffByOne(b) == Len(b) <= BATCH_SIZE
\* the fill loop's condition, `while len(batch) < BATCH_SIZE`
BatchNotFull(b) == Len(b) < BATCH_SIZE

HasVerbTagFirstOnly(tags) == Len(tags) > 0 /\ tags[1] = "B-V"
\* `'B-V' in tags`
HasVerbTag(tags) == \E i \in 1..Len(tags) : tags[i] = "B-V"

\* tags.index('B-V'): 0-based index of the first 'B-V'
VerbIndex(tags) ==
    (CHOOSE i \in 1..Len(tags) :
        tags[i] = "B-V" /\ \A j \in 1..(i - 1) : tags[j] # "B-V") - 1

\* f'{verb_index} {x_string} ||| {y_string}', as its space-separated tokens
MakeLine(words, tags) == <<ToString(VerbIndex(tags))>> \o words \o <<"|||">> \o tags

\* ------------------------------------------------------------------------
\* add_srl_tags.py : the script
\* ------------------------------------------------------------------------
InitTags ==
    /\ utterances \in SeqsUpTo(UtterancePool, MaxUtterances)
    /\ predictor \in Predictors
    /\ it = 0
    /\ batch = <<>>
    /\ outer_loop = TRUE
    /\ res = <<>>
    /\ d = 1
    /\ num_no_verb = 0
    /\ lines = <<>>
    /\ file = <<>>
    /\ w = 1
    /\ pc = "outer"
    /\ batches = <<>>
    /\ processed = <<>>

\* `while outer_loop:` entered: batch = []
OuterEnter ==
    /\ pc = "outer"
    /\ outer_loop
    /\ batch' = <<>>
    /\ pc' = "fill"
    /\ UNCHANGED <<utterances, predictor, it, outer_loop, res, d, num_no_verb,
                   lines, file, w, batches, processed>>
    /\ UNCHANGED notTags

\* `while outer_loop:` left: the prints, then the file is opened for writing
OuterExit ==
    /\ pc = "outer"
    /\ ~outer_loop
    /\ file' = <<>>
    /\ w' = 1
    /\ pc' = "write"
    /\ UNCHANGED <<utterances, predictor, it, batch, outer_loop, res, d,
                   num_no_verb, lines, batches, processed>>
    /\ UNCHANGED notTags

\* next(it) yields an instance, which is appended to the batch
FillNext ==
    /\ pc = "fill"
    /\ BatchNotFull(batch)
    /\ it < Len(gen_instances(utterances))
    /\ batch' = Append(batch, gen_instances(utterances)[it + 1])
    /\ it' = it + 1
    /\ UNCHANGED <<utterances, predictor, outer_loop, res, d, num_no_verb,
                   lines, file, w, pc, batches, processed>>
    /\ UNCHANGED notTags

\* next(it) raises StopIteration: outer_loop = False; break
FillStop ==
    /\ pc = "fill"
    /\ BatchNotFull(batch)
    /\ it >= Len(gen_instances(utterances))
    /\ outer_loop' = FALSE
    /\ pc' = "forward"
    /\ UNCHANGED <<utterances, predictor, it, batch, res, d, num_no_verb,
                   lines, file, w, batches, processed>>
    /\ UNCHANGED notTags

\* the fill loop's condition is false: the batch is full
FillFull ==
    /\ pc = "fill"
    /\ ~BatchNotFull(batch)
    /\ pc' = "forward"
    /\ UNCHANGED <<utterances, predictor, it, batch, outer_loop, res, d,
                   num_no_verb, lines, file, w, batches, processed>>
    /\ UNCHANGED notTags

\* res = predictor._model.forward_on_instances(batch), one output per
\* instance in instance order.
Forward ==
    /\ pc = "forward"
    /\ batch # <<>>
    /\ batches' = Append(batches, batch)
    /\ res' = [k \in 1..Len(batch) |->
                 [words |-> batch[k].words, tags |-> predictor[batch[k]]]]
    /\ d' = 1
    /\ pc' = "lines"
    /\ UNCHANGED <<utterances, predictor, it, batch, outer_loop, num_no_verb,
                   lines, file, w, processed>>
    /\ UNCHANGED notTags

\* forward_on_instances on an empty batch (the generator ran dry exactly at
\* a batch boundary).  What the library does with an empty list is outside
\* the script: it either returns no outputs or raises.
ForwardEmpty ==
    /\ pc = "forward"
    /\ batch = <<>>
    /\ batches' = Append(batches, batch)
    /\ \/ /\ res' = <<>>
          /\ d' = 1
          /\ pc' = "lines"
       \/ /\ pc' = "crashed"
          /\ UNCHANGED <<res, d>>
    /\ UNCHANGED <<utterances, predictor, it, batch, outer_loop, num_no_verb,
                   lines, file, w, processed>>
    /\ UNCHANGED notTags

\* one iteration of `for d in res:`
LineStep ==
    /\ pc = "lines"
    /\ d <= Len(res)
    /\ LET tags == res[d].tags
           words == res[d].words
       IN IF ~HasVerbTag(tags)
          THEN /\ num_no_verb' = num_no_verb + 1
               /\ UNCHANGED <<lines, pc>>
          ELSE LET line == MakeLine(words, tags)
               IN IF INTERACTIVE
                  THEN \E key \in {"q", "c"} :
                          IF key # "q"
                          THEN lines' = Append(lines, line) /\ UNCHANGED pc
                          ELSE pc' = "quit" /\ UNCHANGED lines
                  ELSE lines' = Append(lines, line) /\ UNCHANGED pc
               /\ UNCHANGED num_no_verb
    /\ processed' = Append(processed, res[d])
    /\ d' = d + 1
    /\ UNCHANGED <<utterances, predictor, it, batch, outer_loop, res, file, w,
                   batches>>
    /\ UNCHANGED notTags

\* `for d in res:` exhausted; progress_bar.update()
LinesDone ==
    /\ pc = "lines"
    /\ d > Len(res)
    /\ pc' = "outer"
    /\ UNCHANGED <<utterances, predictor, it, batch, outer_loop, res, d,
                   num_no_verb, lines, file, w, batches, processed>>
    /\ UNCHANGED notTags

\* f.write(line + '\n')
WriteLine ==
    /\ pc = "write"
    /\ w <= Len(lines)
    /\ file' = file \o lines[w] \o <<"\n">>
    /\ w' = w + 1
    /\ UNCHANGED <<utterances, predictor, it, batch, outer_loop, res, d,
                   num_no_verb, lines, pc, batches, processed>>
    /\ UNCHANGED notTags

WriteDone ==
    /\ pc = "write"
    /\ w > Len(lines)
    /\ pc' = "done"
    /\ UNCHANGED <<utterances, predictor, it, batch, outer_loop, res, d,
                   num_no_verb, lines, file, w, batches, processed>>
    /\ UNCHANGED notTags

NextTags ==
    \/ OuterEnter
    \/ OuterExit
    \/ FillNext
    \/ FillStop
    \/ FillFull
    \/ Forward
    \/ ForwardEmpty
    \/ LineStep
    \/ LinesDone
    \/ WriteLine
    \/ WriteDone

\* The script's variables when the script is not the program being run.
IdleTags ==
    /\ utterances = <<>>
    /\ predictor = <<>>
    /\ it = 0
    /\ batch = <<>>
    /\ outer_loop = FALSE
    /\ res = <<>>
    /\ d = 1
    /\ num_no_verb = 0
    /\ lines = <<>>
    /\ file = <<>>
    /\ w = 1
    /\ pc = "idle"
    /\ batches = <<>>
    /\ processed = <<>>

\* ------------------------------------------------------------------------
\* eval.py : evaluate_model_on_pp
\* ------------------------------------------------------------------------
\* The losses the model may report on a batch.
Losses == {0, 1, 2}

\* torch.exp, in thousandths (e^0, e^1, e^2 rounded to three decimals)
Exp(l) == CASE l = 0 -> 1000
            [] l = 1 -> 2718
            [] l = 2 -> 7389

\* A batch of n instances: batch['lm_tags'] has one row per instance.
TagRows(n) == [i \in 1..n |-> "row"]

PPBatches ==
    { [lm_tags |-> TagRows(n), loss |-> l] :
        n \in 1..(params_batch_size + 1), l \in Losses }

SkipsOnlySmaller(rows) == Len(rows) < params_batch_size
\* `if len(batch['lm_tags']) != params.batch_size:` (also eval.py:39)
IsSkipped(rows) == Len(rows) # params_batch_size

\* pp_sum / num_steps, kept exact as numerator and denominator
Fraction(n, m) == [num |-> n, den |-> m]

InitPP ==
    /\ pp_batches \in SeqsUpTo(PPBatches, MaxBatches)
    /\ pp_step = 1
    /\ pp_sum = 0
    /\ num_steps = 0
    /\ pp_result = "none"
    /\ pp_pc = "start"
    /\ model_training \in BOOLEAN
    /\ model_calls = <<>>

IdlePP ==
    /\ pp_batches = <<>>
    /\ pp_step = 1
    /\ pp_sum = 0
    /\ num_steps = 0
    /\ pp_result = "none"
    /\ pp_pc = "idle"
    /\ model_training = FALSE
    /\ model_calls = <<>>

\* model.eval(); the generator is made; pp_sum = 0; num_steps = 0
PPStart ==
    /\ pp_pc = "start"
    /\ model_training' = FALSE
    /\ pp_sum' = 0
    /\ num_steps' = 0
    /\ pp_step' = 1
    /\ pp_pc' = "loop"
    /\ UNCHANGED <<pp_batches, pp_result, model_calls>>
    /\ UNCHANGED notPP

\* a batch of another size: the warning is printed, `continue`
PPSkip ==
    /\ pp_pc = "loop"
    /\ pp_step <= Len(pp_batches)
    /\ IsSkipped(pp_batches[pp_step].lm_tags)
    /\ pp_step' = pp_step + 1
    /\ UNCHANGED <<pp_batches, pp_sum, num_steps, pp_result, pp_pc,
                   model_training, model_calls>>
    /\ UNCHANGED notPP

\* a batch of params.batch_size: the model is run, pp = exp(loss) is added
PPEval ==
    /\ pp_pc = "loop"
    /\ pp_step <= Len(pp_batches)
    /\ ~IsSkipped(pp_batches[pp_step].lm_tags)
    /\ model_calls' = Append(model_calls, pp_step)
    /\ LET pp == Exp(pp_batches[pp_step].loss)
       IN pp_sum' = pp_sum + pp
    /\ num_steps' = num_steps + 1
    /\ pp_step' = pp_step + 1
    /\ UNCHANGED <<pp_batches, pp_result, pp_pc, model_training>>
    /\ UNCHANGED notPP

\* return pp_sum / num_steps
PPReturn ==
    /\ pp_pc = "loop"
    /\ pp_step > Len(pp_batches)
    /\ num_steps # 0
    /\ pp_result' = Fraction(pp_sum, num_steps)
    /\ pp_pc' = "returned"
    /\ UNCHANGED <<pp_batches, pp_step, pp_sum, num_steps, model_training,
                   model_calls>>
    /\ UNCHANGED notPP

\* pp_sum / num_steps with num_steps = 0: Python raises ZeroDivisionError
PPZeroDivision ==
    /\ pp_pc = "loop"
    /\ pp_step > Len(pp_batches)
    /\ num_steps = 0
    /\ pp_pc' = "ZeroDivisionError"
    /\ UNCHANGED <<pp_batches, pp_step, pp_sum, num_steps, pp_result,
                   model_training, model_calls>>
    /\ UNCHANGED notPP

NextPP ==
    \/ PPStart
    \/ PPSkip
    \/ PPEval
    \/ PPReturn
    \/ PPZeroDivision

\* ------------------------------------------------------------------------
\* eval.py : evaluate_model_on_f1
\* ------------------------------------------------------------------------
Samples == {"a", "b"}

\* A batch: batch['tags'] has one row per instance; `sample` stands for its
\* content (tokens and metadata).
F1Batches ==
    { [tags |-> TagRows(n), sample |-> x] :
        n \in 1..(params_batch_size + 1), x \in Samples }

MetricKeys == {"precision-overall", "recall-overall", "f1-measure-overall"}

ReturnsRecall(md) == md["recall-overall"]
\* `return metric_dict['f1-measure-overall']`
ReturnedEntry(md) == md["f1-measure-overall"]

\* span_metric.get_metric: every entry is computed from the accumulated updates
GetMetric(acc) == [k \in MetricKeys |-> <<k, acc>>]

Event(op, step) == [op |-> op, step |-> step]

InitF1 ==
    /\ f1_batches \in SeqsUpTo(F1Batches, MaxBatches)
    /\ f1_step = 1
    /\ f1_pc = "start"
    /\ output_dict = "none"
    /\ batch_bio_predicted_tags = "none"
    /\ span_metric = "none"
    /\ metric_dict = "none"
    /\ f1_result = "none"
    /\ f1_events = <<>>

IdleF1 ==
    /\ f1_batches = <<>>
    /\ f1_step = 1
    /\ f1_pc = "idle"
    /\ output_dict = "none"
    /\ batch_bio_predicted_tags = "none"
    /\ span_metric = "none"
    /\ metric_dict = "none"
    /\ f1_result = "none"
    /\ f1_events = <<>>

\* span_metric = SrlEvalScorer(...); model.eval(); the generator is made
F1Start ==
    /\ f1_pc = "start"
    /\ span_metric' = <<>>
    /\ f1_step' = 1
    /\ f1_pc' = "loop"
    /\ UNCHANGED <<f1_batches, output_dict, batch_bio_predicted_tags,
                   metric_dict, f1_result, f1_events>>
    /\ UNCHANGED notF1

\* a batch of another size: the warning is printed, `continue`
F1Skip ==
    /\ f1_pc = "loop"
    /\ f1_step <= Len(f1_batches)
    /\ IsSkipped(f1_batches[f1_step].tags)
    /\ f1_step' = f1_step + 1
    /\ UNCHANGED <<f1_batches, f1_pc, output_dict, batch_bio_predicted_tags,
                   span_metric, metric_dict, f1_result, f1_events>>
    /\ UNCHANGED notF1

\* output_dict = model(**batch)
F1Forward ==
    /\ f1_pc = "loop"
    /\ f1_step <= Len(f1_batches)
    /\ ~IsSkipped(f1_batches[f1_step].tags)
    /\ output_dict' = <<"output", f1_batches[f1_step].sample>>
    /\ f1_events' = Append(f1_events, Event("forward", f1_step))
    /\ f1_pc' = "decode"
    /\ UNCHANGED <<f1_batches, f1_step, batch_bio_predicted_tags, span_metric,
                   metric_dict, f1_result>>
    /\ UNCHANGED notF1

\* batch_bio_predicted_tags = model.decode(output_dict).pop("tags")
F1Decode ==
    /\ f1_pc = "decode"
    /\ batch_bio_predicted_tags' = <<"bio", output_dict[2]>>
    /\ f1_events' = Append(f1_events, Event("decode", f1_step))
    /\ f1_pc' = "update"
    /\ UNCHANGED <<f1_batches, f1_step, output_dict, span_metric, metric_dict,
                   f1_result>>
    /\ UNCHANGED notF1

\* span_metric(batch_verb_indices, batch_sentences,
\*             batch_conll_predicted_tags, batch_conll_gold_tags)
F1Update ==
    /\ f1_pc = "update"
    /\ LET metadata == <<"metadata", f1_batches[f1_step].sample>>
           batch_conll_predicted_tags == <<"conll", batch_bio_predicted_tags>>
           batch_conll_gold_tags == <<"conll", <<"gold_tags", metadata>>>>
       IN span_metric' = Append(span_metric,
                                [verb_indices |-> <<"verb_index", metadata>>,
                                 sentences |-> <<"words", metadata>>,
                                 predicted |-> batch_conll_predicted_tags,
                                 gold |-> batch_conll_gold_tags])
    /\ f1_events' = Append(f1_events, Event("update", f1_step))
    /\ f1_step' = f1_step + 1
    /\ f1_pc' = "loop"
    /\ UNCHANGED <<f1_batches, output_dict, batch_bio_predicted_tags,
                   metric_dict, f1_result>>
    /\ UNCHANGED notF1

\* metric_dict = span_metric.get_metric(reset=True)
F1GetMetric ==
    /\ f1_pc = "loop"
    /\ f1_step > Len(f1_batches)
    /\ metric_dict' = GetMetric(span_metric)
    /\ span_metric' = <<>>
    /\ f1_events' = Append(f1_events, Event("get_metric", f1_step))
    /\ f1_pc' = "return"
    /\ UNCHANGED <<f1_batches, f1_step, output_dict, batch_bio_predicted_tags,
                   f1_result>>
    /\ UNCHANGED notF1

\* return metric_dict['f1-measure-overall']
F1Return ==
    /\ f1_pc = "return"
    /\ f1_result' = ReturnedEntry(metric_dict)
    /\ f1_pc' = "returned"
    /\ UNCHANGED <<f1_batches, f1_step, output_dict, batch_bio_predicted_tags,
                   span_metric, metric_dict, f1_events>>
    /\ UNCHANGED notF1

NextF1 ==
    \/ F1Start
    \/ F1Skip
    \/ F1Forward
    \/ F1Decode
    \/ F1Update
    \/ F1GetMetric
    \/ F1Return

\* ------------------------------------------------------------------------
\* model_lm.py : LMBert.decode
\* ------------------------------------------------------------------------
\* self.vocab.get_index_to_token_vocabulary("labels"), index 0 first
all_labels == <<"ball", "dog", "go">>

num_labels == Len(all_labels)

LabelIdx == 1..num_labels

\* self.vocab.get_token_from_index(x, namespace="labels"), x counted from 0
get_token_from_index(x) == all_labels[x + 1]

\* Scores and probabilities are counted in units of 1/1024.
ProbUnit == 1024

\* Rows of class probabilities over the labels (each sums to 1): one label
\* clearly ahead, or two labels 1/1024 apart.
ProbRows == { <<614, 205, 205>>, <<205, 614, 205>>, <<205, 205, 614>>,
              <<511, 512, 1>>, <<512, 511, 1>> }

\* A binary mask row: `len` ones, then padding.
MaskRow(len) == [t \in 1..MaxSeqLen |-> IF t <= len THEN 1 ELSE 0]

\* Start offsets of the words among the word pieces (two pieces per word).
WordpieceOffsets(len) == [m \in 1..((len + 1) \div 2) |-> 2 * (m - 1)]

\* One sequence of a batch: its probabilities, its mask and its offsets.
DecodeItems ==
    { [probs |-> pr, mask |-> MaskRow(len), offsets |-> WordpieceOffsets(len)] :
        pr \in [1..MaxSeqLen -> ProbRows], len \in 1..MaxSeqLen }

DecodeBatchSizes == {1, 2}

\* The output dictionaries decode may be given: a batched tensor (dim 3) or
\* a single matrix (dim 2) with a one-row mask.
DecodeInputs ==
    { [dim |-> 3,
       class_probabilities |-> [k \in 1..Len(items) |-> items[k].probs],
       mask |-> [k \in 1..Len(items) |-> items[k].mask],
       wordpiece_offsets |-> [k \in 1..Len(items) |-> items[k].offsets]] :
        items \in UNION { [1..n -> DecodeItems] : n \in DecodeBatchSizes } }
    \cup
    { [dim |-> 2,
       class_probabilities |-> item.probs,
       mask |-> <<item.mask>>,
       wordpiece_offsets |-> <<item.offsets>>] : item \in DecodeItems }

RECURSIVE SumSeq(_)
SumSeq(q) == IF q = <<>> THEN 0 ELSE Head(q) + SumSeq(Tail(q))

\* get_lengths_from_binary_sequence_mask(mask).data.tolist()
get_lengths_from_binary_sequence_mask(mask) ==
    [k \in 1..Len(mask) |-> SumSeq(mask[k])]

MaxOf(S) == CHOOSE x \in S : \A y \in S : y <= x

\* transition_matrix = torch.zeros([num_labels, num_labels])
transition_matrix == [i \in LabelIdx |-> [j \in LabelIdx |-> 0]]

\* start_transitions = torch.zeros(num_labels)
start_transitions == [j \in LabelIdx |-> 0]

\* viterbi_decode, called with start transitions, puts a start tag before the
\* sequence and an end tag after it, both observed; an observed tag gets the
\* score 100000.
ObservedScore == 100000 * ProbUnit

\* float32 keeps 24 significant bits: the spacing of the float32 values
\* around x, in units of 1/ProbUnit (1 where the spacing is finer than the
\* unit: every multiple of the unit below 2^24 units is a float32 value).
RECURSIVE Float32Ulp(_)
Float32Ulp(x) == IF x < 2^24 THEN 1 ELSE 2 * Float32Ulp(x \div 2)

\* A non-negative sum of float32 tensors, rounded to the nearest float32
\* (ties to the even mantissa).
Float32Abs(x) ==
    LET ulp == Float32Ulp(x)
        q == x \div ulp
        r == x % ulp
    IN IF 2 * r < ulp THEN q * ulp
       ELSE IF 2 * r > ulp THEN (q + 1) * ulp
       ELSE IF q % 2 = 0 THEN q * ulp
       ELSE (q + 1) * ulp

\* A sum of float32 tensors, rounded to the nearest float32.
Float32(x) == IF x < 0 THEN 0 - Float32Abs(0 - x) ELSE Float32Abs(x)

\* viterbi_decode's forward pass: the best score of a path ending in label j
\* at timestep t, path_scores[t] = tag_sequence[t] + max(path_scores[t-1] +
\* transition_matrix); the path starts at the observed start tag.
RECURSIVE PathScore(_, _, _, _, _)
PathScore(tag_sequence, trans, start, t, j) ==
    IF t = 1 THEN Float32(tag_sequence[1][j] + Float32(ObservedScore + start[j]))
    ELSE Float32(tag_sequence[t][j]
                 + MaxOf({ Float32(PathScore(tag_sequence, trans, start, t - 1, i)
                                   + trans[i][j]) : i \in LabelIdx }))

\* the labels i a back-pointer from label j at timestep t may name
BackPointers(tag_sequence, trans, start, t, j) ==
    LET cand == [i \in LabelIdx |->
                   Float32(PathScore(tag_sequence, trans, start, t - 1, i)
                           + trans[i][j])]
    IN { i \in LabelIdx : \A k \in LabelIdx : cand[k] <= cand[i] }

\* viterbi_decode(tag_sequence, transition_matrix, allowed_start_transitions):
\* every path the back-tracking from the observed end tag may return (torch.topk
\* may break a tie between equal scores either way), as 0-based label indices.
\* The end transitions default to zeros.
viterbi_decode(tag_sequence, trans, start) ==
    LET n == Len(tag_sequence)
        last == [j \in LabelIdx |-> PathScore(tag_sequence, trans, start, n, j)]
        paths == { p \in [1..n -> LabelIdx] :
                     /\ \A k \in LabelIdx : last[k] <= last[p[n]]
                     /\ \A t \in 2..n :
                          p[t - 1] \in BackPointers(tag_sequence, trans, start, t, p[t]) }
    IN { [t \in 1..n |-> p[t] - 1] : p \in paths }

\* predictions_list, by the number of dimensions of all_predictions
PredictionsList(od) ==
    IF od.dim = 3 THEN od.class_probabilities ELSE <<od.class_probabilities>>

MinOf(S) == CHOOSE x \in S : \A y \in S : x <= y

\* The loop over zip(predictions_list, sequence_lengths, offsets) from its
\* k-th triple on: every list of tag lists it may append to wordpiece_tags.
RECURSIVE DecodeFrom(_, _, _, _)
DecodeFrom(predictions_list, sequence_lengths, n, k) ==
    IF k > n THEN { <<>> }
    ELSE LET tag_sequence == SubSeq(predictions_list[k], 1, sequence_lengths[k])
             decoded == viterbi_decode(tag_sequence, transition_matrix,
                                       start_transitions)
         IN { << [t \in 1..Len(mls) |-> get_token_from_index(mls[t])] >> \o rest :
                mls \in decoded,
                rest \in DecodeFrom(predictions_list, sequence_lengths, n, k + 1) }

InitDecode ==
    /\ dec_output_dict \in DecodeInputs
    /\ wordpiece_lm_tags = "none"
    /\ lm_tags = "none"
    /\ dec_pc = "call"

IdleDecode ==
    /\ dec_output_dict = "none"
    /\ wordpiece_lm_tags = "none"
    /\ lm_tags = "none"
    /\ dec_pc = "idle"

\* LMBert.decode(output_dict)
Decode ==
    /\ dec_pc = "call"
    /\ LET predictions_list == PredictionsList(dec_output_dict)
           sequence_lengths ==
               get_lengths_from_binary_sequence_mask(dec_output_dict.mask)
           offsets == dec_output_dict.wordpiece_offsets
           n == MinOf({Len(predictions_list), Len(sequence_lengths), Len(offsets)})
       IN \E wordpiece_tags \in DecodeFrom(predictions_list, sequence_lengths, n, 1) :
            /\ wordpiece_lm_tags' = wordpiece_tags
            /\ lm_tags' = [k \in 1..n |->
                             [m \in 1..Len(offsets[k]) |->
                                wordpiece_tags[k][offsets[k][m] + 1]]]
    /\ dec_pc' = "returned"
    /\ UNCHANGED dec_output_dict
    /\ UNCHANGED notDecode

NextDecode ==
    \/ Decode

\* ------------------------------------------------------------------------
\* model_lm.py : LMBert.train_on_batch
\* ------------------------------------------------------------------------
\* Floating-point values: finite ones, the infinities and NaN.
Fin(v) == [kind |-> "fin", v |-> v]
PosInf == [kind |-> "inf", v |-> 0]
NegInf == [kind |-> "-inf", v |-> 0]
NaN    == [kind |-> "nan", v |-> 0]

\* IEEE addition, `output_dict["loss"] + self.get_regularization_penalty()`
Add(a, b) ==
    IF a.kind = "nan" \/ b.kind = "nan" THEN NaN
    ELSE IF a.kind = "fin" /\ b.kind = "fin" THEN Fin(a.v + b.v)
    ELSE IF a.kind = "fin" THEN b
    ELSE IF b.kind = "fin" THEN a
    ELSE IF a.kind = b.kind THEN a
    ELSE NaN

IsNanNever(x) == FALSE
\* torch.isnan(loss)
IsNan(x) == x.kind = "nan"

\* What a batch yields: the forward pass's loss, the regularization penalty.
TrainBatches ==
    { [loss |-> l, penalty |-> r] :
        l \in {Fin(0), Fin(1), PosInf, NaN},
        r \in {Fin(0), Fin(1), NegInf, NaN} }

InitTrain ==
    /\ train_batch = "none"
    /\ train_loss = "none"
    /\ train_output = "none"
    /\ grads = "stale"
    /\ num_updates = 0
    /\ train_calls = <<>>
    /\ train_result = "none"
    /\ calls_done = 0
    /\ train_pc = "idle"

IdleTrain ==
    /\ train_batch = "none"
    /\ train_loss = "none"
    /\ train_output = "none"
    /\ grads = "stale"
    /\ num_updates = 0
    /\ train_calls = <<>>
    /\ train_result = "none"
    /\ calls_done = 0
    /\ train_pc = "off"

\* train_on_batch(batch, optimizer) is called; the tensors are moved to cuda
TrainCall ==
    /\ train_pc = "idle"
    /\ calls_done < MaxTrainCalls
    /\ train_batch' \in TrainBatches
    /\ train_calls' = <<>>
    /\ train_loss' = "none"
    /\ train_output' = "none"
    /\ train_result' = "none"
    /\ train_pc' = "zero_grad"
    /\ UNCHANGED <<grads, num_updates, calls_done>>
    /\ UNCHANGED notTrain

\* optimizer.zero_grad()
TrainZeroGrad ==
    /\ train_pc = "zero_grad"
    /\ grads' = "zero"
    /\ train_calls' = Append(train_calls, "zero_grad")
    /\ train_pc' = "forward"
    /\ UNCHANGED <<train_batch, train_loss, train_output, num_updates,
                   train_result, calls_done>>
    /\ UNCHANGED notTrain

\* output_dict = self(**batch)
TrainForward ==
    /\ train_pc = "forward"
    /\ train_output' = [loss |-> train_batch.loss]
    /\ train_calls' = Append(train_calls, "forward")
    /\ train_pc' = "loss"
    /\ UNCHANGED <<train_batch, train_loss, grads, num_updates, train_result,
                   calls_done>>
    /\ UNCHANGED notTrain

\* loss = output_dict["loss"] + self.get_regularization_penalty()
TrainLoss ==
    /\ train_pc = "loss"
    /\ train_loss' = Add(train_output.loss, train_batch.penalty)
    /\ train_pc' = "isnan"
    /\ UNCHANGED <<train_batch, train_output, grads, num_updates, train_calls,
                   train_result, calls_done>>
    /\ UNCHANGED notTrain

\* if torch.isnan(loss): raise ValueError("nan loss encountered")
TrainRaise ==
    /\ train_pc = "isnan"
    /\ IsNan(train_loss)
    /\ train_calls' = Append(train_calls, "raise ValueError")
    /\ train_pc' = "raised"
    /\ UNCHANGED <<train_batch, train_loss, train_output, grads, num_updates,
                   train_result, calls_done>>
    /\ UNCHANGED notTrain

\* loss.backward()
TrainBackward ==
    /\ train_pc = "isnan"
    /\ ~IsNan(train_loss)
    /\ grads' = "computed"
    /\ train_calls' = Append(train_calls, "backward")
    /\ train_pc' = "rescale"
    /\ UNCHANGED <<train_batch, train_loss, train_output, num_updates,
                   train_result, calls_done>>
    /\ UNCHANGED notTrain

\* rescale_gradients(self, grad_norm=1.0)
TrainRescale ==
    /\ train_pc = "rescale"
    /\ grads' = "rescaled"
    /\ train_calls' = Append(train_calls, "rescale_gradients")
    /\ train_pc' = "step"
    /\ UNCHANGED <<train_batch, train_loss, train_output, num_updates,
                   train_result, calls_done>>
    /\ UNCHANGED notTrain

\* optimizer.step()
TrainStep ==
    /\ train_pc = "step"
    /\ num_updates' = num_updates + 1
    /\ train_calls' = Append(train_calls, "step")
    /\ train_pc' = "decode"
    /\ UNCHANGED <<train_batch, train_loss, train_output, grads, train_result,
                   calls_done>>
    /\ UNCHANGED notTrain

\* predicted_lm_tags = self.decode(output_dict).pop("wordpiece_lm_tags"),
\* then the prints
TrainDecode ==
    /\ train_pc = "decode"
    /\ train_calls' = Append(train_calls, "decode")
    /\ train_pc' = "return"
    /\ UNCHANGED <<train_batch, train_loss, train_output, grads, num_updates,
                   train_result, calls_done>>
    /\ UNCHANGED notTrain

\* return loss
TrainReturn ==
    /\ train_pc = "return"
    /\ train_result' = train_loss
    /\ calls_done' = calls_done + 1
    /\ train_pc' = "idle"
    /\ UNCHANGED <<train_batch, train_loss, train_output, grads, num_updates,
                   train_calls>>
    /\ UNCHANGED notTrain

NextTrain ==
    \/ TrainCall
    \/ TrainZeroGrad
    \/ TrainForward
    \/ TrainLoss
    \/ TrainRaise
    \/ TrainBackward
    \/ TrainRescale
    \/ TrainStep
    \/ TrainDecode
    \/ TrainReturn

\* ------------------------------------------------------------------------
\* Specifications
\* ------------------------------------------------------------------------
TagsInit == InitTags /\ IdlePP /\ IdleF1 /\ IdleDecode /\ IdleTrain
SpecTags == TagsInit /\ [][NextTags]_vars

PPInit == InitPP /\ IdleTags /\ IdleF1 /\ IdleDecode /\ IdleTrain
SpecPP == PPInit /\ [][NextPP]_vars

F1Init == InitF1 /\ IdleTags /\ IdlePP /\ IdleDecode /\ IdleTrain
SpecF1 == F1Init /\ [][NextF1]_vars

DecodeInit == InitDecode /\ IdleTags /\ IdlePP /\ IdleF1 /\ IdleTrain
SpecDecode == DecodeInit /\ [][NextDecode]_vars

TrainInit == InitTrain /\ IdleTags /\ IdlePP /\ IdleF1 /\ IdleDecode
SpecTrain == TrainInit /\ [][NextTrain]_vars

\* ------------------------------------------------------------------------
\* Properties of add_srl_tags.py
\* ------------------------------------------------------------------------
ContainsBV(tags) == \E i \in 1..Len(tags) : tags[i] = "B-V"

\* the line each prediction with a 'B-V' tag gives, in prediction order
RECURSIVE LinesFor(_)
LinesFor(preds) ==
    IF preds = <<>> THEN <<>>
    ELSE (IF ContainsBV(Head(preds).tags)
          THEN <<MakeLine(Head(preds).words, Head(preds).tags)>>
          ELSE <<>>)
         \o LinesFor(Tail(preds))

\* the tokens of a file that holds the given lines, each ended by a newline
RECURSIVE FileOf(_)
FileOf(ls) == IF ls = <<>> THEN <<>> ELSE Head(ls) \o <<"\n">> \o FileOf(Tail(ls))

NumFileLines == Cardinality({ i \in 1..Len(file) : file[i] = "\n" })

\* C1: every prediction handled by the line loop either appends exactly one
\* line (its tags contain 'B-V') or adds one to num_no_verb (they do not);
\* so len(lines) + num_no_verb is the number of predictions handled so far,
\* the predictions are handled in instance order, lines holds the lines of
\* the predictions with a 'B-V' in that order, and the file written at the
\* end has exactly len(lines) lines.
C1_LinesAndSkipsAccountForPredictions ==
    /\ Len(lines) + num_no_verb = Len(processed)
    /\ num_no_verb =
          Cardinality({ k \in 1..Len(processed) : ~ContainsBV(processed[k].tags) })
    /\ lines = LinesFor(processed)
    /\ Len(processed) <= Len(gen_instances(utterances))
    /\ \A k \in 1..Len(processed) :
          LET inst == gen_instances(utterances)[k]
          IN processed[k] = [words |-> inst.words, tags |-> predictor[inst]]
    /\ pc = "write" => file = FileOf(SubSeq(lines, 1, w - 1))
    /\ pc = "done" => file = FileOf(lines) /\ NumFileLines = Len(lines)

\* the script has finished, with lines written and predictions skipped
C1_Witness ==
    /\ pc = "done"
    /\ Len(lines) >= 2
    /\ num_no_verb >= 1
    /\ NumFileLines = Len(lines)
    /\ \E k \in 1..Len(lines) : lines[k][1] = "1"

RECURSIVE Flatten(_)
Flatten(bs) == IF bs = <<>> THEN <<>> ELSE Head(bs) \o Flatten(Tail(bs))

\* every batch formed so far: those handed to the predictor and the one
\* being filled
BatchesFormed ==
    batches \o (IF pc \in {"fill", "forward"} THEN <<batch>> ELSE <<>>)

\* C5: the batches, one after the other, are exactly the instances the
\* generator has yielded, in generation order (so every instance is in
\* exactly one batch); no batch holds more than BATCH_SIZE instances; every
\* batch but the last holds exactly BATCH_SIZE; once the loop has ended every
\* generated instance is in a batch.
C5_BatchesPartitionInstances ==
    /\ Flatten(BatchesFormed) = SubSeq(gen_instances(utterances), 1, it)
    /\ \A k \in 1..Len(BatchesFormed) : Len(BatchesFormed[k]) <= BATCH_SIZE
    /\ \A k \in 1..(Len(BatchesFormed) - 1) : Len(BatchesFormed[k]) = BATCH_SIZE
    /\ pc \in {"write", "done", "crashed"} =>
          Flatten(batches) = gen_instances(utterances)

\* the script has finished after a full batch and a partial last batch
C5_Witness ==
    /\ pc = "done"
    /\ Len(batches) = 2
    /\ Len(batches[1]) = BATCH_SIZE
    /\ Len(batches[2]) = 1

\* ------------------------------------------------------------------------
\* Properties of eval.py
\* ------------------------------------------------------------------------
\* the steps, among the first n, whose batch has exactly params.batch_size rows
FullPPSteps(n) ==
    { k \in 1..n : k <= Len(pp_batches)
                   /\ Len(pp_batches[k].lm_tags) = params_batch_size }

RECURSIVE SumOfPP(_)
SumOfPP(S) ==
    IF S = {} THEN 0
    ELSE LET k == CHOOSE x \in S : TRUE
         IN Exp(pp_batches[k].loss) + SumOfPP(S \ {k})

\* the members of a set of steps, in increasing order
RECURSIVE Ascending(_)
Ascending(S) ==
    IF S = {} THEN <<>>
    ELSE LET m == CHOOSE x \in S : \A y \in S : x <= y
         IN <<m>> \o Ascending(S \ {m})

\* C2: while the batches are looped over, the model has been invoked exactly
\* once on each handled batch of exactly params.batch_size and on no other,
\* num_steps counts those batches and pp_sum is the sum of their exp(loss);
\* the value returned is that sum over all such batches divided by their
\* number (with no such batch the division is 0 / 0, which raises
\* ZeroDivisionError, and nothing is returned).
C2_PerplexityOverFullBatches ==
    /\ pp_pc \in {"loop", "returned", "ZeroDivisionError"} =>
          LET seen == FullPPSteps(pp_step - 1)
          IN /\ model_calls = Ascending(seen)
             /\ num_steps = Cardinality(seen)
             /\ pp_sum = SumOfPP(seen)
    /\ pp_pc = "returned" =>
          LET full == FullPPSteps(Len(pp_batches))
          IN /\ pp_result.num = SumOfPP(full)
             /\ pp_result.den = Cardinality(full)
             /\ full # {}
    /\ pp_pc = "ZeroDivisionError" => FullPPSteps(Len(pp_batches)) = {}

\* a value was returned after two batches were evaluated and one was skipped
C2_Witness ==
    /\ pp_pc = "returned"
    /\ num_steps = 2
    /\ Len(pp_batches) = 3
    /\ pp_result.num = Exp(1) + Exp(2)

FullF1Steps(n) ==
    { k \in 1..n : k <= Len(f1_batches)
                   /\ Len(f1_batches[k].tags) = params_batch_size }

IsUpdate(e) == e.op = "update"

IsGetMetric(e) == e.op = "get_metric"

\* C3: the span metric has been updated exactly once for each handled batch
\* of exactly params.batch_size, in batch order, and for no other batch; each
\* update comes right after the forward pass and the decode of that same
\* batch; get_metric(reset=True) is called at most once and only after the
\* last batch was handled, exactly once when the function returns (also when
\* every batch was skipped), and the function returns its
\* 'f1-measure-overall' entry.
C3_MetricUpdatesAndSingleGetMetric ==
    /\ f1_pc \in {"loop", "return", "returned"} =>
          LET updates == SelectSeq(f1_events, IsUpdate)
          IN [j \in 1..Len(updates) |-> updates[j].step]
                = Ascending(FullF1Steps(f1_step - 1))
    /\ \A j \in 1..Len(f1_events) :
          IsUpdate(f1_events[j]) =>
             /\ j >= 3
             /\ f1_events[j - 2] = Event("forward", f1_events[j].step)
             /\ f1_events[j - 1] = Event("decode", f1_events[j].step)
    /\ f1_pc \in {"loop", "decode", "update"} =>
          /\ Len(SelectSeq(f1_events, IsGetMetric)) = 0
          /\ Len(span_metric) = Len(SelectSeq(f1_events, IsUpdate))
    /\ f1_pc \in {"return", "returned"} =>
          /\ Len(SelectSeq(f1_events, IsGetMetric)) = 1
          /\ IsGetMetric(f1_events[Len(f1_events)])
          /\ f1_step = Len(f1_batches) + 1
          /\ Len(metric_dict["f1-measure-overall"][2])
                = Cardinality(FullF1Steps(Len(f1_batches)))
    /\ f1_pc = "returned" => f1_result = metric_dict["f1-measure-overall"]

\* the function returned after two updates and a skipped batch
C3_Witness ==
    /\ f1_pc = "returned"
    /\ Len(f1_batches) = 3
    /\ Len(SelectSeq(f1_events, IsUpdate)) = 2
    /\ f1_result[1] = "f1-measure-overall"

\* ------------------------------------------------------------------------
\* Properties of model_lm.py
\* ------------------------------------------------------------------------
\* the probabilities of the k-th sequence given to decode
ProbsOf(k) ==
    IF dec_output_dict.dim = 3 THEN dec_output_dict.class_probabilities[k]
    ELSE dec_output_dict.class_probabilities

\* C4: decode returns, for every sequence, exactly as many word-piece tags
\* as the sequence's mask length, and at every position where one label has
\* the strictly highest class probability the tag is that label, whatever
\* the probabilities at the other positions are.
C4_DecodeIsPositionwiseArgmax ==
    dec_pc = "returned" =>
       /\ Len(wordpiece_lm_tags) = Len(dec_output_dict.mask)
       /\ \A k \in 1..Len(wordpiece_lm_tags) :
             LET length == SumSeq(dec_output_dict.mask[k])
             IN /\ Len(wordpiece_lm_tags[k]) = length
                /\ \A t \in 1..length : \A j \in LabelIdx :
                      (\A i \in LabelIdx \ {j} : ProbsOf(k)[t][i] < ProbsOf(k)[t][j])
                         => wordpiece_lm_tags[k][t] = all_labels[j]

\* What decode does guarantee: as many word-piece tags as the mask length,
\* and at every position a label whose probability is within one float32
\* spacing (at 100000) of the highest one.
DecodeIsArgmaxUpToRounding ==
    dec_pc = "returned" =>
       /\ Len(wordpiece_lm_tags) = Len(dec_output_dict.mask)
       /\ \A k \in 1..Len(wordpiece_lm_tags) :
             LET length == SumSeq(dec_output_dict.mask[k])
             IN /\ Len(wordpiece_lm_tags[k]) = length
                /\ \A t \in 1..length : \E j \in LabelIdx :
                      /\ wordpiece_lm_tags[k][t] = all_labels[j]
                      /\ \A i \in LabelIdx :
                            ProbsOf(k)[t][i] <= ProbsOf(k)[t][j] + Float32Ulp(ObservedScore)

\* a sequence whose two positions have different, unique most probable
\* labels was decoded to the same label at both
C4_Witness ==
    /\ dec_pc = "returned"
    /\ dec_output_dict.dim = 3
    /\ Len(wordpiece_lm_tags) = 1
    /\ ProbsOf(1) = << <<511, 512, 1>>, <<512, 511, 1>> >>
    /\ SumSeq(dec_output_dict.mask[1]) = 2
    /\ wordpiece_lm_tags[1] = <<"ball", "ball">>

StepsWithoutNan ==
    <<"zero_grad", "forward", "backward", "rescale_gradients", "step", "decode">>

\* C6: when loss + penalty is NaN the call raises ValueError right after
\* zero_grad and the forward pass, with no backward pass, no gradient
\* rescaling and no optimizer step (the parameters keep the updates of the
\* earlier calls only); it raises in no other case; when the loss is not NaN
\* the steps run in the order zero_grad, forward, backward,
\* rescale_gradients, optimizer.step, decode, with one optimizer step.
C6_NanLossRaisesBeforeUpdate ==
    /\ train_pc \in {"rescale", "step", "decode", "return", "raised"} =>
          LET sum == Add(train_batch.loss, train_batch.penalty)
          IN IF sum.kind = "nan"
             THEN /\ train_pc = "raised"
                  /\ train_calls = <<"zero_grad", "forward", "raise ValueError">>
                  /\ grads = "zero"
                  /\ num_updates = calls_done
             ELSE /\ train_pc # "raised"
                  /\ train_loss = sum
                  /\ \E n \in 1..Len(StepsWithoutNan) :
                        train_calls = SubSeq(StepsWithoutNan, 1, n)
    /\ train_pc = "return" =>
          /\ train_calls = StepsWithoutNan
          /\ num_updates = calls_done + 1
    /\ train_pc = "idle" /\ calls_done > 0 =>
          /\ train_calls = StepsWithoutNan
          /\ train_result = train_loss
          /\ num_updates = calls_done

\* after a call that returned, a call raised on a NaN that is the sum of an
\* infinite loss and an infinite penalty
C6_Witness ==
    /\ train_pc = "raised"
    /\ calls_done >= 1
    /\ train_batch.loss = PosInf
    /\ train_batch.penalty = NegInf

====
